---- MODULE Spec2Model ----
(***************************************************************************)
(* Model of website-backend-python: the debate orchestration pipeline      *)
(* (app/features/debate/service.py, router.py) and the contact drafting    *)
(* endpoints (app/routers_contact.py, app/llm_agent.py).                   *)
(*                                                                         *)
(* A Python str is modelled as a sequence of tokens (one token per         *)
(* character or per fixed literal such as "Side 1:"); None is the one      *)
(* sequence <<"<None>">>, which no string of the model equals.             *)
(***************************************************************************)
EXTENDS Integers, Sequences, FiniteSets, TLC

\* ------------------------------------------------------------------ bounds

\* longest model output (in tokens) fed to the position parser
MaxLen == 4
\* longest list of organic results the search API returns in the model
MaxResults == 4
\* number of contact requests handled in the contact specification
MaxRequests == 3
\* number of debate requests in flight in the concurrent specification
MaxSessions == 2

\* ------------------------------------------------------- program constants

\* service.py:260  for turn in range(6)
NumTurns == 6
\* service.py:118  data.get("organic_results", [])[:3]
TopResults == 3

\* --------------------------------------------------------------- strings

None == <<"<None>">>
Empty == <<>>

Whitespace == {" ", "\n"}

\* Python truthiness of an Optional[str]
Truthy(v) == v # None /\ v # Empty

\* Python `a or b`
Or(a, b) == IF Truthy(a) THEN a ELSE b

RECURSIVE LStrip(_)
LStrip(s) ==
    IF s = <<>> THEN s
    ELSE IF Head(s) \in Whitespace THEN LStrip(Tail(s)) ELSE s

RECURSIVE RStrip(_)
RStrip(s) ==
    IF s = <<>> THEN s
    ELSE IF s[Len(s)] \in Whitespace THEN RStrip(SubSeq(s, 1, Len(s) - 1)) ELSE s

\* str.strip()
Strip(s) == RStrip(LStrip(s))

\* str.split("\n"): the pieces between newlines; "" splits to [""]
RECURSIVE Split(_)
Split(s) ==
    IF \A i \in 1..Len(s) : s[i] # "\n" THEN <<s>>
    ELSE LET k == CHOOSE i \in 1..Len(s) :
                      s[i] = "\n" /\ \A j \in 1..(i - 1) : s[j] # "\n"
         IN  <<SubSeq(s, 1, k - 1)>> \o Split(SubSeq(s, k + 1, Len(s)))

\* str.replace(tok, ""), tok one token of the model's alphabet
Replace(s, tok) == SelectSeq(s, LAMBDA c : c # tok)

\* separator.join(parts) on token strings
RECURSIVE Join(_, _)
Join(sep, parts) ==
    IF parts = <<>> THEN <<>>
    ELSE IF Len(parts) = 1 THEN parts[1]
    ELSE parts[1] \o sep \o Join(sep, Tail(parts))

\* ------------------------------------------------------------ exceptions

NoExc == [kind |-> "none", detail |-> ""]

\* service.py:173  raise ValueError("GROQ_API_KEY is not set")
MissingKeyError == [kind |-> "ValueError", detail |-> "GROQ_API_KEY is not set"]

\* what a model call (Runner.run) can raise: a ValueError subclass (a JSON
\* decoding or validation error is one) or any other Exception
ModelExceptions ==
    { [kind |-> "ValueError", detail |-> "invalid response"],
      [kind |-> "Exception", detail |-> "upstream failure"] }

\* ------------------------------------------------------------- settings

\* a credential of settings.py: unset (None), set to "", or set
KeyValues == {None, Empty, <<"k">>}

\* ------------------------------------------------- position extraction

\* the literal prefixes of service.py:202-203, one token each
Side1 == "Side 1:"
Side2 == "Side 2:"

\* service.py:201  the stripped non-empty lines of positions_text
NonEmptyLines(text) ==
    LET raw == Split(text)
        stripped == [i \in 1..Len(raw) |-> Strip(raw[i])]
    IN  SelectSeq(stripped, LAMBDA l : l # Empty)

\* service.py:202
Position1(lines) ==
    IF Len(lines) > 0 THEN Strip(Replace(lines[1], Side1))
    ELSE <<"Supporting the topic">>

\* service.py:203
Position2(lines) ==
    IF Len(lines) > 1 THEN Strip(Replace(lines[2], Side2))
    ELSE <<"Opposing the topic">>

\* service.py:198-203 applied to result.final_output
ParsePositions(final_output) ==
    LET positions_text == Strip(Or(final_output, Empty))
        lines == NonEmptyLines(positions_text)
    IN  [position_1 |-> Position1(lines), position_2 |-> Position2(lines)]

\* ------------------------------------------------------- web grounding

Pending == <<"<pending>">>

\* an exception object among the results of asyncio.gather
ExceptionResult == <<"<exception>">>

\* what one page fetch can do: return a page with text, return a page whose
\* cleaned text is empty, or raise (timeout, HTTP status, parse error)
FetchOutcomes == {"ok", "blank", "raise"}

\* the cleaned text of the page behind url (service.py:35-53)
PageText(url) == <<"text of ", url>>

\* scrape_webpage: the text, or "" on any exception
scrape_webpage(url, outcome) ==
    IF outcome = "ok" THEN PageText(url)
    ELSE Empty

\* service.py:117-122  the (link, title) pairs of the top results that have both
SelectUrls(organic_results) ==
    LET top == SubSeq(organic_results, 1,
                      IF Len(organic_results) < TopResults
                      THEN Len(organic_results) ELSE TopResults)
    IN  SelectSeq(top, LAMBDA item : item.link # "" /\ item.title # "")

\* service.py:144  one formatted excerpt
Excerpt(item, content) ==
    <<"DOC ", item.title, "\n">> \o content \o <<"\nSource: ", item.link>>

Divider == <<"\n\n", "====", "\n\n">>

\* service.py:139-144  results, in the order of titles
RECURSIVE Results(_, _)
Results(titles, cs) ==
    IF titles = <<>> THEN <<>>
    ELSE IF Head(cs) = ExceptionResult THEN Results(Tail(titles), Tail(cs))
    ELSE IF Head(cs) # Empty
         THEN <<Excerpt(Head(titles), Head(cs))>> \o Results(Tail(titles), Tail(cs))
         ELSE Results(Tail(titles), Tail(cs))

\* service.py:146-149
JoinResults(titles, cs) == Join(Divider, Results(titles, cs))

\* service.py:209-219
FormatContext(search_results) ==
    IF Truthy(search_results)
    THEN <<"Background information from recent sources:\n\n">>
         \o search_results \o <<"\n\n">>
    ELSE Empty

\* mutant: perform_web_search without its except clause
PerformWebSearchOnErrorPropagating(exc) == exc

\* service.py:151-154  an exception inside perform_web_search: what propagates
\* (NoExc: the except clause swallows it)
PerformWebSearchOnError(exc) == NoExc

\* ---------------------------------------------------------- personas

PositionAgent == [name |-> "Position Analyzer", instructions |-> Empty]

QueryAgent ==
    [name |-> "Search Query Optimizer",
     instructions |-> <<"You are an expert at creating effective search queries for Google.">>]

\* service.py:222-254
Debater(name, ctx, position, tpc) ==
    [name |-> name,
     instructions |-> ctx \o <<"You're chatting as a friend who leans toward: ">>
                      \o position \o <<".\nTopic: ">> \o tpc \o <<"\n\nStyle guidelines">>]

\* ------------------------------------------------------------ prompts

Seg(kind, label, text) == [seg |-> kind, label |-> label, text |-> text]

\* mutant: the speaker never alternates
CurrentSpeakerFirstOnly(t) == "debater_1"
\* service.py:262-264
CurrentSpeaker(t) == IF t % 2 = 0 THEN "debater_1" ELSE "debater_2"

\* mutant: the two labels are exchanged
SpeakerLabelSwapped(msg, current_speaker) ==
    IF msg.speaker # current_speaker THEN "You" ELSE "Your opponent"
\* service.py:281
SpeakerLabel(msg, current_speaker) ==
    IF msg.speaker # current_speaker THEN "Your opponent" ELSE "You"

\* service.py:267-294  the prompt of turn t over the history so far
BuildPrompt(t, tpc, history) ==
    IF t = 0
    THEN <<Seg("opening", "", tpc)>>
    ELSE <<Seg("continue", "", tpc)>>
         \o [i \in 1..Len(history) |->
               Seg("entry", SpeakerLabel(history[i], CurrentSpeaker(t)),
                   history[i].message)]
         \o <<Seg("reply", "", Empty)>>
         \o (IF t = 5 THEN <<Seg("closing", "", Empty)>> ELSE <<>>)

\* service.py:189-195
PositionPrompt(tpc) == <<Seg("positions", "", tpc)>>

\* service.py:76-81
RefinePrompt(tpc) == <<Seg("refine", "", tpc)>>

\* one Runner.run(agent, prompt)
Call(agent, prompt) == [agent |-> agent, prompt |-> prompt]

\* ----------------------------------------------------------- SSE events

TurnEvent(m) ==
    [type |-> "turn", speaker |-> m.speaker, message |-> m.message,
     position |-> m.position, error |-> ""]

DoneEvent ==
    [type |-> "done", speaker |-> "", message |-> Empty, position |-> Empty,
     error |-> ""]

ErrorEvent(msg) ==
    [type |-> "error", speaker |-> "", message |-> Empty, position |-> Empty,
     error |-> msg]

\* mutants: the exception's own text is sent; the exception ends the stream
\* like a completed session
RouterOnExceptionLeaking(exc) == ErrorEvent(exc.detail)
RouterOnExceptionDone(exc) == DoneEvent
\* router.py:35-44  the event sent for an exception out of generate_debate
RouterOnException(exc) ==
    IF exc.kind = "ValueError"
    THEN ErrorEvent("Server configuration error")
    ELSE ErrorEvent("Failed to generate debate")

\* mutant: the Turn is held back instead of being sent
ForwardBuffered(sent, m) == sent
\* router.py:27-30  one Turn of generate_debate sent as an SSE event
Forward(sent, m) == Append(sent, TurnEvent(m))

\* ------------------------------------------------------------- inputs

Topics == {<<"topic">>}

\* result.final_output of the position call in the session specification
PositionOutputs ==
    { None,
      <<Side1, " ", "a", "\n", Side2, " ", "b">>,
      <<"a", "\n">>,
      <<Side1, "\n", Side2>> }

\* result.final_output of the query-refinement call
RefineOutputs == {None, <<"q", " ">>}

\* result.final_output of a turn's call
TurnOutputs == {None, <<" ">>, <<" ", "m", "\n">>}

\* one organic result of the search response
Items ==
    { [link |-> "u1", title |-> "t1"],
      [link |-> "u2", title |-> "t2"],
      [link |-> "", title |-> "t3"] }

SearchResponses == UNION { [1..n -> Items] : n \in 0..MaxResults }

\* ---------------------------------------------------------------- state

VARIABLES
    GROQ_API_KEY,          \* settings.GROQ_API_KEY
    SERPAPI_API_KEY,       \* settings.SERPAPI_API_KEY
    topic,                 \* generate_debate's argument
    allow_search,          \* generate_debate's argument
    pc,                    \* where generate_debate is suspended
    final_output,          \* result.final_output of the position call
    position_1,
    position_2,
    search_query,
    urls,                  \* the (link, title) pairs selected for scraping
    contents,              \* the gathered results, one slot per task
    fetched,               \* what each scrape task's fetch did, per task
    search_context,
    turn,
    conversation_history,
    model_calls,           \* every Runner.run started, in order
    search_calls,          \* number of requests sent to the search API
    stream,                \* the events debate_event_generator has yielded
    failed_at,             \* the step whose exception reached the router
    absorbed,              \* the grounding steps that failed and were caught
    agent_cache,           \* llm_agent._agent
    responses,             \* the contact endpoints' responses, in order
    default_client,        \* the process-wide client of set_default_openai_client
    sessions               \* the locals of each debate request in flight

vars ==
    <<GROQ_API_KEY, SERPAPI_API_KEY, topic, allow_search, pc, final_output,
      position_1, position_2, search_query, urls, contents, fetched,
      search_context, turn, conversation_history, model_calls, search_calls, stream,
      failed_at, absorbed, agent_cache, responses, default_client, sessions>>

settingsVars == <<GROQ_API_KEY, SERPAPI_API_KEY, topic, allow_search>>
contactVars == <<agent_cache, responses>>

\* service.py:176-179, llm_agent.py:25-28  AsyncOpenAI(api_key, base_url)
Client(key) == [api_key |-> key, base_url |-> "https://api.groq.com/openai/v1"]

\* no client has been set yet
NoClient == [api_key |-> None, base_url |-> ""]

\* the state of a request that has not run yet
Idle ==
    /\ position_1 = Empty
    /\ position_2 = Empty
    /\ search_query = Empty
    /\ urls = <<>>
    /\ contents = <<>>
    /\ fetched = <<>>
    /\ search_context = Empty
    /\ turn = 0
    /\ conversation_history = <<>>
    /\ model_calls = <<>>
    /\ search_calls = 0
    /\ stream = <<>>
    /\ failed_at = "none"
    /\ absorbed = {}
    /\ agent_cache = None
    /\ responses = <<>>
    /\ default_client = NoClient

Init ==
    /\ GROQ_API_KEY \in KeyValues
    /\ SERPAPI_API_KEY \in KeyValues
    /\ topic \in Topics
    /\ allow_search \in BOOLEAN
    /\ pc = "request"
    /\ final_output = None
    /\ sessions = <<>>
    /\ Idle

\* ------------------------------------------------- debate: the session

\* an exception leaves generate_debate at `step`: debate_event_generator
\* catches it and sends one error event (router.py:35-44)
Fail(step, exc) ==
    /\ pc' = "failed"
    /\ failed_at' = step
    /\ stream' = Append(stream, RouterOnException(exc))

\* service.py:221-297 at turn 0: the personas are built and the first call starts
EnterTurnLoop(ctx, p1, p2) ==
    /\ search_context' = ctx
    /\ turn' = 0
    /\ conversation_history' = <<>>
    /\ model_calls' = Append(model_calls,
           Call(Debater("Debater 1", ctx, p1, topic), BuildPrompt(0, topic, <<>>)))
    /\ pc' = "turn"

\* service.py:172-173  the credential is missing
RequestNoKey ==
    /\ pc = "request"
    /\ ~Truthy(GROQ_API_KEY)
    /\ Fail("init", MissingKeyError)
    /\ UNCHANGED <<settingsVars, final_output, position_1, position_2,
                   search_query, urls, contents, fetched, search_context, turn,
                   conversation_history, model_calls, search_calls, absorbed,
                   contactVars, default_client, sessions>>

\* service.py:175-197  the client is configured and the position call starts
Request ==
    /\ pc = "request"
    /\ Truthy(GROQ_API_KEY)
    /\ default_client' = Client(GROQ_API_KEY)
    /\ model_calls' = Append(model_calls, Call(PositionAgent, PositionPrompt(topic)))
    /\ pc' = "positions"
    /\ UNCHANGED <<settingsVars, final_output, position_1, position_2,
                   search_query, urls, contents, fetched, search_context, turn,
                   conversation_history, search_calls, stream, failed_at,
                   absorbed, contactVars, sessions>>

\* service.py:197  the position call raises
PositionsRaise ==
    /\ pc = "positions"
    /\ \E exc \in ModelExceptions : Fail("positions", exc)
    /\ UNCHANGED <<settingsVars, final_output, position_1, position_2,
                   search_query, urls, contents, fetched, search_context, turn,
                   conversation_history, model_calls, search_calls, absorbed,
                   contactVars, default_client, sessions>>

\* service.py:197-211  the position call returns, search enabled
PositionsReturnSearch ==
    /\ pc = "positions"
    /\ allow_search
    /\ \E out \in PositionOutputs :
         /\ final_output' = out
         /\ position_1' = ParsePositions(out).position_1
         /\ position_2' = ParsePositions(out).position_2
    /\ model_calls' = Append(model_calls, Call(QueryAgent, RefinePrompt(topic)))
    /\ pc' = "refine"
    /\ UNCHANGED <<settingsVars, search_query, urls, contents, fetched, search_context,
                   turn, conversation_history, search_calls, stream, failed_at,
                   absorbed, contactVars, default_client, sessions>>

\* service.py:197-210, 221-297  the position call returns, search disabled
PositionsReturnNoSearch ==
    /\ pc = "positions"
    /\ ~allow_search
    /\ \E out \in PositionOutputs :
         /\ final_output' = out
         /\ position_1' = ParsePositions(out).position_1
         /\ position_2' = ParsePositions(out).position_2
         /\ EnterTurnLoop(Empty, ParsePositions(out).position_1,
                          ParsePositions(out).position_2)
    /\ UNCHANGED <<settingsVars, search_query, urls, contents, fetched, search_calls,
                   stream, failed_at, absorbed, contactVars, default_client, sessions>>

\* service.py:83  the refinement call raises: nothing in refine_search_query or
\* generate_debate catches it
RefineRaise ==
    /\ pc = "refine"
    /\ \E exc \in ModelExceptions : Fail("refine", exc)
    /\ UNCHANGED <<settingsVars, final_output, position_1, position_2,
                   search_query, urls, contents, fetched, search_context, turn,
                   conversation_history, model_calls, search_calls, absorbed,
                   contactVars, default_client, sessions>>

\* service.py:84, 97-99  the refinement returns and the search credential is
\* missing: perform_web_search returns ""
RefineReturnNoSerp ==
    /\ pc = "refine"
    /\ ~Truthy(SERPAPI_API_KEY)
    /\ \E out \in RefineOutputs : search_query' = Strip(Or(out, topic))
    /\ absorbed' = absorbed \cup {"credential"}
    /\ EnterTurnLoop(FormatContext(Empty), position_1, position_2)
    /\ UNCHANGED <<settingsVars, final_output, position_1, position_2, urls,
                   contents, fetched, search_calls, stream, failed_at, contactVars, default_client, sessions>>

\* service.py:84, 101-112  the refinement returns and the search request is sent
RefineReturn ==
    /\ pc = "refine"
    /\ Truthy(SERPAPI_API_KEY)
    /\ \E out \in RefineOutputs : search_query' = Strip(Or(out, topic))
    /\ search_calls' = search_calls + 1
    /\ pc' = "search"
    /\ UNCHANGED <<settingsVars, final_output, position_1, position_2, urls,
                   contents, fetched, search_context, turn, conversation_history,
                   model_calls, stream, failed_at, absorbed, contactVars, default_client, sessions>>

\* service.py:103-113, 151-154  the search request fails or times out
SearchRaise ==
    /\ pc = "search"
    /\ LET exc == PerformWebSearchOnError([kind |-> "Exception", detail |-> "search failed"])
       IN  IF exc = NoExc
           THEN /\ absorbed' = absorbed \cup {"search"}
                /\ EnterTurnLoop(FormatContext(Empty), position_1, position_2)
                /\ UNCHANGED <<stream, failed_at>>
           ELSE /\ Fail("search", exc)
                /\ UNCHANGED <<absorbed, search_context, turn,
                               conversation_history, model_calls>>
    /\ UNCHANGED <<settingsVars, final_output, position_1, position_2,
                   search_query, urls, contents, fetched, search_calls, contactVars, default_client, sessions>>

\* service.py:114-126  the search returns no usable result
SearchReturnEmpty ==
    /\ pc = "search"
    /\ \E rs \in SearchResponses : SelectUrls(rs) = <<>>
    /\ EnterTurnLoop(FormatContext(Empty), position_1, position_2)
    /\ UNCHANGED <<settingsVars, final_output, position_1, position_2,
                   search_query, urls, contents, fetched, search_calls, stream,
                   failed_at, absorbed, contactVars, default_client, sessions>>

\* service.py:114-137  the search returns and one scrape task per url starts
SearchReturn ==
    /\ pc = "search"
    /\ \E rs \in SearchResponses :
         /\ SelectUrls(rs) # <<>>
         /\ urls' = SelectUrls(rs)
         /\ contents' = [i \in 1..Len(SelectUrls(rs)) |-> Pending]
         /\ fetched' = [i \in 1..Len(SelectUrls(rs)) |-> "pending"]
    /\ pc' = "gather"
    /\ UNCHANGED <<settingsVars, final_output, position_1, position_2,
                   search_query, search_context, turn, conversation_history,
                   model_calls, search_calls, stream, failed_at, absorbed,
                   contactVars, default_client, sessions>>

\* mutant: results are kept in completion order
GatherStoreCompletionOrder(cs, i, value) ==
    LET k == CHOOSE j \in 1..Len(cs) :
                 cs[j] = Pending /\ \A l \in 1..(j - 1) : cs[l] # Pending
    IN  [cs EXCEPT ![k] = value]
\* service.py:137  asyncio.gather keeps each task's result at the task's index
GatherStore(cs, i, value) == [cs EXCEPT ![i] = value]

\* service.py:12-57  one scrape task completes, in any order
FetchDone ==
    /\ pc = "gather"
    /\ \E i \in 1..Len(contents), outcome \in FetchOutcomes :
         /\ contents[i] = Pending
         /\ contents' = GatherStore(contents, i, scrape_webpage(urls[i].link, outcome))
         /\ fetched' = [fetched EXCEPT ![i] = outcome]
         /\ absorbed' = IF outcome = "raise" THEN absorbed \cup {"fetch"} ELSE absorbed
    /\ UNCHANGED <<settingsVars, pc, final_output, position_1, position_2,
                   search_query, urls, search_context, turn,
                   conversation_history, model_calls, search_calls, stream,
                   failed_at, contactVars, default_client, sessions>>

\* service.py:137-149, 212-219  every task is done: the results are joined
\* and perform_web_search returns (its locals are gone)
GatherJoin ==
    /\ pc = "gather"
    /\ \A i \in 1..Len(contents) : contents[i] # Pending
    /\ EnterTurnLoop(FormatContext(JoinResults(urls, contents)), position_1, position_2)
    /\ urls' = <<>>
    /\ contents' = <<>>
    /\ fetched' = <<>>
    /\ UNCHANGED <<settingsVars, final_output, position_1, position_2,
                   search_query, search_calls, stream,
                   failed_at, absorbed, contactVars, default_client, sessions>>

\* service.py:297  the call of the current turn raises
TurnRaise ==
    /\ pc = "turn"
    /\ \E exc \in ModelExceptions : Fail("turn", exc)
    /\ UNCHANGED <<settingsVars, final_output, position_1, position_2,
                   search_query, urls, contents, fetched, search_context, turn,
                   conversation_history, model_calls, search_calls, absorbed,
                   contactVars, default_client, sessions>>

\* mutant: an empty output is not accepted, the turn's call is made again
TurnReturnRetrying ==
    /\ pc = "turn"
    /\ \E out \in TurnOutputs :
         LET message_data ==
                 [speaker |-> CurrentSpeaker(turn),
                  message |-> Strip(Or(out, Empty)),
                  position |-> IF turn % 2 = 0 THEN position_1 ELSE position_2]
         IN  IF message_data.message = Empty
             THEN /\ model_calls' = Append(model_calls, model_calls[Len(model_calls)])
                  /\ UNCHANGED <<conversation_history, stream, pc>>
             ELSE /\ conversation_history' = Append(conversation_history, message_data)
                  /\ stream' = Forward(stream, message_data)
                  /\ pc' = "yielded"
                  /\ UNCHANGED model_calls
    /\ UNCHANGED <<settingsVars, final_output, position_1, position_2,
                   search_query, urls, contents, fetched, search_context, turn,
                   search_calls, failed_at, absorbed, contactVars, default_client, sessions>>

\* service.py:297-309, router.py:27-30  the call returns: the Turn is
\* appended, yielded and sent
TurnReturn ==
    /\ pc = "turn"
    /\ \E out \in TurnOutputs :
         LET message_data ==
                 [speaker |-> CurrentSpeaker(turn),
                  message |-> Strip(Or(out, Empty)),
                  position |-> IF turn % 2 = 0 THEN position_1 ELSE position_2]
         IN  /\ conversation_history' = Append(conversation_history, message_data)
             /\ stream' = Forward(stream, message_data)
    /\ pc' = "yielded"
    /\ UNCHANGED <<settingsVars, final_output, position_1, position_2,
                   search_query, urls, contents, fetched, search_context, turn,
                   model_calls, search_calls, failed_at, absorbed, contactVars, default_client, sessions>>

\* service.py:260-297  the generator is resumed: the next turn's call starts
NextTurn ==
    /\ pc = "yielded"
    /\ turn + 1 < NumTurns
    /\ turn' = turn + 1
    /\ model_calls' = Append(model_calls,
           Call(IF (turn + 1) % 2 = 0
                THEN Debater("Debater 1", search_context, position_1, topic)
                ELSE Debater("Debater 2", search_context, position_2, topic),
                BuildPrompt(turn + 1, topic, conversation_history)))
    /\ pc' = "turn"
    /\ UNCHANGED <<settingsVars, final_output, position_1, position_2,
                   search_query, urls, contents, fetched, search_context,
                   conversation_history, search_calls, stream, failed_at,
                   absorbed, contactVars, default_client, sessions>>

\* service.py:260, router.py:32-33  the loop is over: the done event is sent
Complete ==
    /\ pc = "yielded"
    /\ turn + 1 >= NumTurns
    /\ stream' = Append(stream, DoneEvent)
    /\ pc' = "complete"
    /\ UNCHANGED <<settingsVars, final_output, position_1, position_2,
                   search_query, urls, contents, fetched, search_context, turn,
                   conversation_history, model_calls, search_calls, failed_at,
                   absorbed, contactVars, default_client, sessions>>

Next ==
    \/ RequestNoKey
    \/ Request
    \/ PositionsRaise
    \/ PositionsReturnSearch
    \/ PositionsReturnNoSearch
    \/ RefineRaise
    \/ RefineReturnNoSerp
    \/ RefineReturn
    \/ SearchRaise
    \/ SearchReturnEmpty
    \/ SearchReturn
    \/ FetchDone
    \/ GatherJoin
    \/ TurnRaise
    \/ TurnReturn
    \/ NextTurn
    \/ Complete

Spec == Init /\ [][Next]_vars

\* ------------------------------------- position extraction on any output

Alphabet == {"a", " ", "\n", Side1, Side2}

\* every final_output of at most MaxLen tokens, and None
AllOutputs == {None} \cup UNION { [1..n -> Alphabet] : n \in 0..MaxLen }

InitPositions ==
    /\ GROQ_API_KEY = <<"k">>
    /\ SERPAPI_API_KEY = None
    /\ topic \in Topics
    /\ allow_search = FALSE
    /\ pc = "parse"
    /\ final_output \in AllOutputs
    /\ sessions = <<>>
    /\ Idle

\* service.py:198-203 on the output the position call returned
ParseStep ==
    /\ pc = "parse"
    /\ position_1' = ParsePositions(final_output).position_1
    /\ position_2' = ParsePositions(final_output).position_2
    /\ pc' = "parsed"
    /\ UNCHANGED <<settingsVars, final_output, search_query, urls, contents,
                   fetched, search_context, turn, conversation_history,
                   model_calls, search_calls, stream, failed_at, absorbed,
                   contactVars, default_client, sessions>>

NextPositions == ParseStep

SpecPositions == InitPositions /\ [][NextPositions]_vars

\* ------------------------------------------------- contact endpoints

ContactAgent == <<"Contact Draft Assistant">>

\* result.final_output of a drafting call
DraftOutputs == {None, Empty, <<" ", "\n">>, <<" ", "d", "\n">>}

\* what Runner.run does in a contact request: raise exc, or return out
ModelOutcomes ==
    { [raises |-> TRUE, exc |-> e, out |-> None] : e \in ModelExceptions }
    \cup { [raises |-> FALSE, exc |-> NoExc, out |-> o] : o \in DraftOutputs }

\* llm_agent.py:12-35  get_agent: the exception it raises (NoExc if none)
GetAgentRaises(cache, key) ==
    IF cache # None THEN NoExc
    ELSE IF ~Truthy(key)
         THEN [kind |-> "ValueError", detail |-> "GROQ_API_KEY is not set."]
         ELSE NoExc

\* llm_agent.py:12-35  get_agent: the value of _agent afterwards
GetAgentCache(cache, key) ==
    IF cache # None THEN cache
    ELSE IF ~Truthy(key) THEN cache ELSE ContactAgent

\* llm_agent.py:24-28  get_agent: the default client afterwards
GetAgentClient(cache, key, client) ==
    IF cache # None THEN client
    ELSE IF ~Truthy(key) THEN client ELSE Client(key)

Response(status, detail, draft) ==
    [status |-> status, detail |-> detail, draft |-> draft]

\* routers_contact.py:26-39, 50-63  the try block of an endpoint, given the
\* exception out of the service call (NoExc if none) and its return value
Endpoint(exc, draft, emptyDetail, failDetail) ==
    IF exc = NoExc
    THEN IF draft = Empty
         THEN Response(502, emptyDetail, Empty)
         ELSE Response(200, "", draft)
    ELSE IF exc.kind = "ValueError"
         THEN Response(500, "Server configuration error", Empty)
         ELSE Response(502, failDetail, Empty)

\* features/contact/service.py:23-28, 46-51  the service call: get_agent,
\* then one Runner.run, then the stripped output
ServiceExc(cache, key, outcome) ==
    IF GetAgentRaises(cache, key) # NoExc THEN GetAgentRaises(cache, key)
    ELSE IF outcome.raises THEN outcome.exc ELSE NoExc

ServiceResult(outcome) == Strip(Or(outcome.out, Empty))

\* why a request ended as it did: the class of failure that happened
Cause(cache, key, outcome) ==
    IF GetAgentRaises(cache, key) # NoExc THEN "config"
    ELSE IF outcome.raises THEN "model_raised"
    ELSE IF ServiceResult(outcome) = Empty THEN "empty"
    ELSE "generated"

Handle(endpoint, emptyDetail, failDetail) ==
    /\ pc = "contact"
    /\ Len(responses) < MaxRequests
    /\ \E outcome \in ModelOutcomes :
         /\ agent_cache' = GetAgentCache(agent_cache, GROQ_API_KEY)
         /\ default_client' = GetAgentClient(agent_cache, GROQ_API_KEY, default_client)
         /\ responses' = Append(responses,
                [endpoint |-> endpoint,
                 cause |-> Cause(agent_cache, GROQ_API_KEY, outcome),
                 response |-> Endpoint(ServiceExc(agent_cache, GROQ_API_KEY, outcome),
                                       ServiceResult(outcome),
                                       emptyDetail, failDetail)])
    /\ UNCHANGED <<settingsVars, pc, final_output, position_1, position_2,
                   search_query, urls, contents, fetched, search_context, turn,
                   conversation_history, model_calls, search_calls, stream,
                   failed_at, absorbed, sessions>>

\* routers_contact.py:24-39  POST /api/contact/draft
create_draft ==
    Handle("draft", "Empty draft returned by the model", "Failed to generate draft")

\* routers_contact.py:48-63  POST /api/contact/draft/improve
improve_draft ==
    Handle("improve", "Empty improved draft returned by the model",
           "Failed to improve draft")

InitContact ==
    /\ GROQ_API_KEY \in KeyValues
    /\ SERPAPI_API_KEY = None
    /\ topic \in Topics
    /\ allow_search = FALSE
    /\ pc = "contact"
    /\ final_output = None
    /\ sessions = <<>>
    /\ Idle

NextContact ==
    \/ create_draft
    \/ improve_draft

SpecContact == InitContact /\ [][NextContact]_vars

\* ================================================================ claims

IsDebater(c) == c.agent.name \in {"Debater 1", "Debater 2"}

\* the Runner.run calls of the turn loop, in the order they started
TurnCalls == SelectSeq(model_calls, IsDebater)

\* the Turn events of the stream, in the order they were sent
TurnEvents == SelectSeq(stream, LAMBDA e : e.type = "turn")

ExpectedSpeaker(i) == IF i \in {0, 2, 4} THEN "debater_1" ELSE "debater_2"

\* C1: the history is always a prefix of debater_1, debater_2, debater_1, ...
\* of at most 6 Turns; a session in which no call raised stops only after
\* its 6th Turn, and has then yielded exactly 6 Turns.
C1_SixAlternatingTurns ==
    /\ Len(conversation_history) <= 6
    /\ \A i \in 1..Len(conversation_history) :
           conversation_history[i].speaker = ExpectedSpeaker(i - 1)
    /\ pc = "complete" => Len(conversation_history) = 6 /\ Len(TurnEvents) = 6
    /\ pc = "yielded" /\ Len(conversation_history) < 6 => ENABLED NextTurn
    /\ pc = "turn" => ENABLED TurnReturn /\ Len(conversation_history) < 6

C1_Witness ==
    /\ pc = "complete"
    /\ Len(conversation_history) = 6
    /\ conversation_history[6].speaker = "debater_2"

\* C2: the stream carries the Turns in generation order, Turn i is sent
\* before the call of Turn i+1 starts, and a session without failure ends as
\* 6 Turn events followed by exactly one done event, the last event.
C2_IncrementalOrderedStream ==
    /\ pc \in {"turn", "yielded", "complete"} =>
          /\ Len(TurnEvents) = Len(conversation_history)
          /\ \A i \in 1..Len(conversation_history) :
                 stream[i] = TurnEvent(conversation_history[i])
          /\ Len(TurnCalls) <= Len(TurnEvents) + 1
    /\ pc = "turn" => Len(TurnCalls) = Len(TurnEvents) + 1
    /\ \A i \in 1..Len(stream) :
           stream[i].type = "done" => i = Len(stream) /\ i = 7 /\ pc = "complete"
    /\ pc = "complete" =>
          /\ Len(stream) = 7
          /\ stream[7] = DoneEvent
          /\ \A i \in 1..6 : stream[i].type = "turn"
          /\ ~ENABLED Next

C2_Witness ==
    /\ pc = "complete"
    /\ Len(stream) = 7
    /\ stream[7].type = "done"
    /\ stream[1].message # stream[2].message

\* C3: when the call of Turn k raises, the stream is the k Turns produced so
\* far, in order, then exactly one error event; no later Turn is generated,
\* no done event is sent, the call is not repeated and the session is over.
C3_TurnFailureEndsStream ==
    failed_at = "turn" =>
        /\ pc = "failed"
        /\ Len(conversation_history) = turn
        /\ Len(stream) = turn + 1
        /\ \A i \in 1..turn : stream[i] = TurnEvent(conversation_history[i])
        /\ stream[turn + 1].type = "error"
        /\ \A i \in 1..Len(stream) : stream[i].type # "done"
        /\ Len(TurnCalls) = turn + 1
        /\ ~ENABLED Next

C3_Witness ==
    /\ failed_at = "turn"
    /\ turn = 3
    /\ Len(stream) = 4
    /\ stream[4].type = "error"

\* C4: with GROQ_API_KEY not configured, a debate request makes no model call
\* and no search call, and its stream is exactly one error event with the
\* generic message "Server configuration error".
C4_MissingCredential ==
    ~Truthy(GROQ_API_KEY) /\ pc # "request" =>
        /\ pc = "failed"
        /\ model_calls = <<>>
        /\ search_calls = 0
        /\ conversation_history = <<>>
        /\ stream = <<ErrorEvent("Server configuration error")>>
        /\ ~ENABLED Next

C4_Witness ==
    /\ GROQ_API_KEY = Empty
    /\ pc = "failed"
    /\ failed_at = "init"
    /\ Len(stream) = 1

\* C5: no failure of a grounding sub-step (the refinement call raising, the
\* search credential missing, the search failing, page fetches failing)
\* fails the session or sends an error event, and after a refinement, credential
\* or search failure the grounding snippet is empty.
C5_GroundingNeverFails ==
    /\ failed_at \notin {"refine", "search", "fetch"}
    /\ (pc \in {"turn", "yielded", "complete"}
          /\ absorbed \cap {"credential", "search"} # {})
       => search_context = Empty

\* the excerpts the claim expects of the tasks' fetches: one per fetch that
\* returned text, in the order of urls
ExpectedExcerpts ==
    LET ok == SelectSeq([i \in 1..Len(urls) |-> i], LAMBDA i : fetched[i] = "ok")
    IN  [k \in 1..Len(ok) |->
            <<"DOC ", urls[ok[k]].title, "\n", "text of ", urls[ok[k]].link,
              "\nSource: ", urls[ok[k]].link>>]

\* C6: whatever subset of the fetches fails and in whatever order they
\* complete, a completing fetch leaves the other tasks' results alone, and the
\* joined result is one excerpt per fetch that returned text, in discovery
\* order, and the empty string when none did.
C6_FetchIsolation ==
    [][/\ pc = "gather" /\ pc' = "gather" =>
            \A j \in 1..Len(urls) :
                /\ fetched[j] # "pending" => fetched'[j] = fetched[j]
                /\ fetched'[j] = "ok" <=> contents'[j] = <<"text of ", urls[j].link>>
                /\ fetched'[j] \in {"blank", "raise"} <=> contents'[j] = Empty
       /\ pc = "gather" /\ pc' # "gather" =>
            /\ pc' = "turn"
            /\ ExpectedExcerpts = <<>> => search_context' = Empty
            /\ ExpectedExcerpts # <<>> =>
                 search_context' =
                     <<"Background information from recent sources:\n\n">>
                     \o Join(Divider, ExpectedExcerpts) \o <<"\n\n">>
      ]_vars

\* three fetches ran, the first and the last failed (one raised, one came
\* back empty) and the second returned text: each result sits in its own slot
C6_Witness ==
    /\ pc = "gather"
    /\ Len(urls) = 3
    /\ fetched = <<"raise", "ok", "blank">>
    /\ contents = <<Empty, <<"text of ", urls[2].link>>, Empty>>

\* C7: position extraction returns two non-empty strings for every model
\* output, the fallback labels standing in for a missing line.
C7_PositionsNonEmpty ==
    pc = "parsed" =>
        /\ position_1 # Empty
        /\ position_2 # Empty

\* C8: the contact endpoints answer 500 for a missing credential, 502 for a
\* model call that raises or returns empty or whitespace-only text, and 200
\* with the draft only for a non-empty generated text.
C8_ContactErrorMapping ==
    \A i \in 1..Len(responses) :
        LET r == responses[i]
        IN  /\ r.cause = "config" => r.response.status = 500
            /\ r.cause \in {"model_raised", "empty"} => r.response.status = 502
            /\ r.cause = "generated" =>
                   r.response.status = 200 /\ r.response.draft # Empty
            /\ r.response.status = 200 => r.cause = "generated"

\* C9 as stated: only a missing credential or a raising turn call fails a session
C9_FailedOnlyFromInitOrTurn ==
    failed_at \in {"none", "init", "turn"}

\* C9 amended: a session fails only when the credential is missing or when a
\* model call raises (the position call, the query-refinement call, or a
\* turn's call); a failing search request or page fetch never fails it.
C9_FailureSources ==
    /\ failed_at \in {"none", "init", "positions", "refine", "turn"}
    /\ pc = "failed" <=> failed_at # "none"
    /\ failed_at # "none" <=>
          (stream # <<>> /\ stream[Len(stream)].type = "error")
    /\ failed_at = "init" <=> (pc # "request" /\ ~Truthy(GROQ_API_KEY))

C9_Witness ==
    /\ pc = "failed"
    /\ failed_at = "positions"
    /\ stream = <<ErrorEvent("Failed to generate debate")>>

\* the entries of a prompt: the prior messages it carries
Entries(prompt) == SelectSeq(prompt, LAMBDA g : g.seg = "entry")

HasClosing(prompt) == \E i \in 1..Len(prompt) : prompt[i].seg = "closing"

\* C10: the prompt of turn k carries the messages of turns 0..k-1, each once
\* and in order, labelled "You" for the current speaker's own and "Your
\* opponent" for the other's; turn 0's carries none, and only turn 5's
\* carries the closing instruction.
C10_PromptHistory ==
    \A k \in 0..(Len(TurnCalls) - 1) :
        LET prompt == TurnCalls[k + 1].prompt
            entries == Entries(prompt)
        IN  /\ Len(entries) = k
            /\ k <= Len(conversation_history)
            /\ \A j \in 1..k :
                 /\ entries[j].text = conversation_history[j].message
                 /\ entries[j].label =
                        IF ExpectedSpeaker(j - 1) = ExpectedSpeaker(k)
                        THEN "You" ELSE "Your opponent"
            /\ HasClosing(prompt) <=> k = 5
            /\ k = 0 => prompt = <<Seg("opening", "", topic)>>

C10_Witness ==
    /\ pc = "complete"
    /\ Len(TurnCalls) = 6
    /\ conversation_history[1].message # conversation_history[2].message
    /\ Len(Entries(TurnCalls[6].prompt)) = 5

\* C12: each turn makes exactly one model call, and an empty or
\* whitespace-only output does not abort the session: the Turn with the empty
\* message is appended and sent, the call is not repeated, the next turn is
\* generated, and the session still ends with 6 Turns and the done event.
C12_EmptyOutputIsATurn ==
    /\ pc \in {"turn", "yielded", "complete"} \/ failed_at = "turn" =>
          Len(TurnCalls) = Len(conversation_history)
                           + (IF pc = "turn" \/ failed_at = "turn" THEN 1 ELSE 0)
    /\ \A i \in 1..Len(conversation_history) :
          conversation_history[i].message = Empty =>
              /\ stream[i].type = "turn"
              /\ stream[i].message = Empty
              /\ stream[i].speaker = ExpectedSpeaker(i - 1)
    /\ (pc = "yielded" /\ conversation_history[Len(conversation_history)].message = Empty) =>
          IF Len(conversation_history) < 6
          THEN ENABLED NextTurn /\ ~ENABLED Complete
          ELSE ENABLED Complete
    /\ failed_at = "turn" => Len(stream) = Len(conversation_history) + 1
    /\ pc = "complete" =>
          /\ Len(conversation_history) = 6
          /\ Len(TurnCalls) = 6
          /\ stream = [i \in 1..7 |->
                          IF i <= 6 THEN TurnEvent(conversation_history[i])
                          ELSE DoneEvent]

\* a completed session whose 3rd and 6th outputs were empty
C12_Witness ==
    /\ pc = "complete"
    /\ Len(stream) = 7
    /\ stream[3].message = Empty
    /\ stream[6].message = Empty
    /\ stream[4].message # Empty
    /\ stream[7] = DoneEvent

\* ------------------------------------------ debate: concurrent sessions

\* the requests in flight
SessionIds == 1..MaxSessions

\* each request carries its own topic
TopicOf(s) == <<"topic ", ToString(s)>>

\* the token by which a text names the topic it was produced for
Tag(tpc) == tpc[Len(tpc)]

\* what the model returns to a call is produced from the prompt it was given:
\* the outputs below name the topic (and, for a turn, the number of prior
\* messages) found in that prompt
PositionReply(prompt) ==
    <<Side1, " ", "for ", Tag(prompt[1].text), "\n",
      Side2, " ", "against ", Tag(prompt[1].text), "\n">>

RefineReply(prompt) == <<" ", "query ", Tag(prompt[1].text)>>

TurnReply(prompt) ==
    <<" ", "reply ", Tag(prompt[1].text), ToString(Len(Entries(prompt))), "\n">>

\* the organic results of the search API for a query: pages about the query
SearchResponseFor(query) ==
    <<[link |-> Tag(query), title |-> "t1"], [link |-> "", title |-> "t2"]>>

\* one Runner.run(agent, prompt), made through the default client of the moment
ClientCall(client, agent, prompt) ==
    [client |-> client, agent |-> agent, prompt |-> prompt]

\* service.py:157-171  the locals of a generate_debate(topic) not yet started
NewSession(tpc) ==
    [pc |-> "request", topic |-> tpc, position_1 |-> Empty, position_2 |-> Empty,
     search_query |-> Empty, urls |-> <<>>, contents |-> <<>>,
     search_context |-> Empty, turn |-> 0, conversation_history |-> <<>>,
     model_calls |-> <<>>, stream |-> <<>>]

\* service.py:221-297 at turn 0 of one session
SessionEnterTurnLoop(r, ctx, client) ==
    [r EXCEPT !.search_context = ctx,
              !.urls = <<>>,
              !.contents = <<>>,
              !.turn = 0,
              !.conversation_history = <<>>,
              !.model_calls = Append(@,
                  ClientCall(client,
                             Debater("Debater 1", ctx, r.position_1, r.topic),
                             BuildPrompt(0, r.topic, <<>>))),
              !.pc = "turn"]

\* mutant: conversation_history is one process-wide list
SessionAppendShared(ss, s, m) ==
    [t \in DOMAIN ss |->
        [ss[t] EXCEPT !.conversation_history = Append(@, m)]]

\* service.py:257, 306  conversation_history is a local of the request
SessionAppend(ss, s, m) ==
    [ss EXCEPT ![s].conversation_history = Append(@, m)]

\* service.py:222-254, 263  current_agent of session s at turn t
SessionPersona(ss, s, t) ==
    IF t % 2 = 0
    THEN Debater("Debater 1", ss[s].search_context, ss[s].position_1, ss[s].topic)
    ELSE Debater("Debater 2", ss[s].search_context, ss[s].position_2, ss[s].topic)

concurrentUnchanged ==
    <<settingsVars, pc, final_output, position_1, position_2, search_query,
      urls, contents, fetched, search_context, turn, conversation_history,
      model_calls, search_calls, stream, failed_at, absorbed, responses>>

\* service.py:172-197  a request starts: it sets the default client and starts
\* its position call
SessionRequest(s) ==
    /\ pc = "concurrent"
    /\ sessions[s].pc = "request"
    /\ Truthy(GROQ_API_KEY)
    /\ default_client' = Client(GROQ_API_KEY)
    /\ sessions' = [sessions EXCEPT
           ![s].model_calls = Append(@,
               ClientCall(Client(GROQ_API_KEY), PositionAgent,
                          PositionPrompt(sessions[s].topic))),
           ![s].pc = "positions"]
    /\ UNCHANGED <<concurrentUnchanged, agent_cache>>

\* service.py:83, 197, 297, router.py:40-44  a model call of the session raises
SessionCallRaise(s) ==
    /\ pc = "concurrent"
    /\ sessions[s].pc \in {"positions", "refine", "turn"}
    /\ \E exc \in {e \in ModelExceptions : e.kind = "Exception"} :
         sessions' = [sessions EXCEPT
             ![s].stream = Append(@, RouterOnException(exc)),
             ![s].pc = "failed"]
    /\ UNCHANGED <<concurrentUnchanged, agent_cache, default_client>>

\* service.py:197-211  the position call returns and the refinement call starts
SessionPositionsReturn(s) ==
    /\ pc = "concurrent"
    /\ sessions[s].pc = "positions"
    /\ LET r == sessions[s]
           out == PositionReply(r.model_calls[Len(r.model_calls)].prompt)
       IN  sessions' = [sessions EXCEPT
               ![s].position_1 = ParsePositions(out).position_1,
               ![s].position_2 = ParsePositions(out).position_2,
               ![s].model_calls = Append(@,
                   ClientCall(default_client, QueryAgent, RefinePrompt(r.topic))),
               ![s].pc = "refine"]
    /\ UNCHANGED <<concurrentUnchanged, agent_cache, default_client>>

\* service.py:84, 101-112  the refinement returns and the search request is sent
SessionRefineReturn(s) ==
    /\ pc = "concurrent"
    /\ sessions[s].pc = "refine"
    /\ Truthy(SERPAPI_API_KEY)
    /\ LET r == sessions[s]
           out == RefineReply(r.model_calls[Len(r.model_calls)].prompt)
       IN  sessions' = [sessions EXCEPT
               ![s].search_query = Strip(Or(out, r.topic)),
               ![s].pc = "search"]
    /\ UNCHANGED <<concurrentUnchanged, agent_cache, default_client>>

\* service.py:103-113, 151-154  the search request of the session fails
SessionSearchRaise(s) ==
    /\ pc = "concurrent"
    /\ sessions[s].pc = "search"
    /\ sessions' = [sessions EXCEPT
           ![s] = SessionEnterTurnLoop(@, FormatContext(Empty), default_client)]
    /\ UNCHANGED <<concurrentUnchanged, agent_cache, default_client>>

\* service.py:114-137  the search returns and the scrape tasks start
SessionSearchReturn(s) ==
    /\ pc = "concurrent"
    /\ sessions[s].pc = "search"
    /\ LET selected == SelectUrls(SearchResponseFor(sessions[s].search_query))
       IN  sessions' = [sessions EXCEPT
               ![s].urls = selected,
               ![s].contents = [i \in 1..Len(selected) |-> Pending],
               ![s].pc = "gather"]
    /\ UNCHANGED <<concurrentUnchanged, agent_cache, default_client>>

\* service.py:12-57  one scrape task of the session completes
SessionFetchDone(s) ==
    /\ pc = "concurrent"
    /\ sessions[s].pc = "gather"
    /\ \E i \in 1..Len(sessions[s].contents), outcome \in FetchOutcomes :
         /\ sessions[s].contents[i] = Pending
         /\ sessions' = [sessions EXCEPT
                ![s].contents = GatherStore(@, i,
                    scrape_webpage(sessions[s].urls[i].link, outcome))]
    /\ UNCHANGED <<concurrentUnchanged, agent_cache, default_client>>

\* service.py:137-149, 212-297  the results are joined, the personas built and
\* the call of turn 0 starts
SessionGatherJoin(s) ==
    /\ pc = "concurrent"
    /\ sessions[s].pc = "gather"
    /\ \A i \in 1..Len(sessions[s].contents) : sessions[s].contents[i] # Pending
    /\ sessions' = [sessions EXCEPT
           ![s] = SessionEnterTurnLoop(@,
                      FormatContext(JoinResults(sessions[s].urls, sessions[s].contents)),
                      default_client)]
    /\ UNCHANGED <<concurrentUnchanged, agent_cache, default_client>>

\* service.py:297-309, router.py:27-30  the call of the session's turn returns
SessionTurnReturn(s) ==
    /\ pc = "concurrent"
    /\ sessions[s].pc = "turn"
    /\ LET r == sessions[s]
           out == TurnReply(r.model_calls[Len(r.model_calls)].prompt)
           message_data ==
               [speaker |-> CurrentSpeaker(r.turn),
                message |-> Strip(Or(out, Empty)),
                position |-> IF r.turn % 2 = 0 THEN r.position_1 ELSE r.position_2]
       IN  sessions' = [SessionAppend(sessions, s, message_data) EXCEPT
               ![s].stream = Forward(@, message_data),
               ![s].pc = "yielded"]
    /\ UNCHANGED <<concurrentUnchanged, agent_cache, default_client>>

\* service.py:260-297  the session's generator is resumed: its next call starts
SessionNextTurn(s) ==
    /\ pc = "concurrent"
    /\ sessions[s].pc = "yielded"
    /\ sessions[s].turn + 1 < NumTurns
    /\ LET r == sessions[s]
       IN  sessions' = [sessions EXCEPT
               ![s].turn = r.turn + 1,
               ![s].model_calls = Append(@,
                   ClientCall(default_client,
                              SessionPersona(sessions, s, r.turn + 1),
                              BuildPrompt(r.turn + 1, r.topic, r.conversation_history))),
               ![s].pc = "turn"]
    /\ UNCHANGED <<concurrentUnchanged, agent_cache, default_client>>

\* service.py:260, router.py:32-33  the session's loop is over
SessionComplete(s) ==
    /\ pc = "concurrent"
    /\ sessions[s].pc = "yielded"
    /\ sessions[s].turn + 1 >= NumTurns
    /\ sessions' = [sessions EXCEPT
           ![s].stream = Append(@, DoneEvent),
           ![s].pc = "complete"]
    /\ UNCHANGED <<concurrentUnchanged, agent_cache, default_client>>

\* llm_agent.py:12-35  a contact request running beside the debates calls
\* get_agent for the first time
ContactGetAgent ==
    /\ pc = "concurrent"
    /\ agent_cache = None
    /\ agent_cache' = GetAgentCache(agent_cache, GROQ_API_KEY)
    /\ default_client' = GetAgentClient(agent_cache, GROQ_API_KEY, default_client)
    /\ UNCHANGED <<concurrentUnchanged, sessions>>

InitConcurrent ==
    /\ GROQ_API_KEY = <<"k">>
    /\ SERPAPI_API_KEY = <<"k">>
    /\ topic \in Topics
    /\ allow_search = TRUE
    /\ pc = "concurrent"
    /\ final_output = None
    /\ sessions = [s \in SessionIds |-> NewSession(TopicOf(s))]
    /\ Idle

NextConcurrent ==
    \/ \E s \in SessionIds : SessionRequest(s)
    \/ \E s \in SessionIds : SessionCallRaise(s)
    \/ \E s \in SessionIds : SessionPositionsReturn(s)
    \/ \E s \in SessionIds : SessionRefineReturn(s)
    \/ \E s \in SessionIds : SessionSearchRaise(s)
    \/ \E s \in SessionIds : SessionSearchReturn(s)
    \/ \E s \in SessionIds : SessionFetchDone(s)
    \/ \E s \in SessionIds : SessionGatherJoin(s)
    \/ \E s \in SessionIds : SessionTurnReturn(s)
    \/ \E s \in SessionIds : SessionNextTurn(s)
    \/ \E s \in SessionIds : SessionComplete(s)
    \/ ContactGetAgent

SpecConcurrent == InitConcurrent /\ [][NextConcurrent]_vars

\* the messages session s's own turns produce: the reply to the prompt of
\* turn k of that session's topic
OwnMessage(s, k) == <<"reply ", ToString(s), ToString(k)>>

OwnPosition(s, i) ==
    IF i \in {0, 2, 4} THEN <<"for ", ToString(s)>> ELSE <<"against ", ToString(s)>>

\* the grounding snippets session s can hold: none, or the excerpt of the
\* page found for its own query
OwnContexts(s) ==
    { Empty,
      <<"Background information from recent sources:\n\n",
        "DOC ", "t1", "\n", "text of ", ToString(s), "\nSource: ", ToString(s),
        "\n\n">> }

\* C11: with requests interleaved at every suspension point, each session's
\* history, positions and personas stay its own: every prompt and every Turn
\* of a session holds only that session's topic, positions, snippet and prior
\* messages, and a session that completes has sent its own 6 alternating Turns.
C11_SessionIsolation ==
    \A s \in SessionIds :
        LET r == sessions[s]
            calls == SelectSeq(r.model_calls, IsDebater)
            started == r.pc \in {"turn", "yielded", "complete"}
        IN  /\ r.topic = <<"topic ", ToString(s)>>
            /\ r.search_context \in OwnContexts(s)
            /\ started => r.position_1 = OwnPosition(s, 0)
                          /\ r.position_2 = OwnPosition(s, 1)
            /\ Len(r.conversation_history) <= 6
            /\ \A i \in 1..Len(r.conversation_history) :
                 /\ r.conversation_history[i].speaker = ExpectedSpeaker(i - 1)
                 /\ r.conversation_history[i].message = OwnMessage(s, i - 1)
                 /\ r.conversation_history[i].position = OwnPosition(s, i - 1)
                 /\ r.stream[i] = TurnEvent(r.conversation_history[i])
            /\ started => Len(calls) = Len(r.conversation_history)
                                       + (IF r.pc = "turn" THEN 1 ELSE 0)
            /\ \A k \in 0..(Len(calls) - 1) :
                 LET c == calls[k + 1]
                     entries == Entries(c.prompt)
                 IN  /\ c.client.api_key = GROQ_API_KEY
                     /\ c.prompt[1].text = r.topic
                     /\ c.agent.name = IF k \in {0, 2, 4} THEN "Debater 1" ELSE "Debater 2"
                     /\ c.agent.instructions =
                            r.search_context
                            \o <<"You're chatting as a friend who leans toward: ">>
                            \o OwnPosition(s, k)
                            \o <<".\nTopic: ">> \o r.topic \o <<"\n\nStyle guidelines">>
                     /\ Len(entries) = k
                     /\ \A j \in 1..k : entries[j].text = OwnMessage(s, j - 1)
            /\ r.pc = "complete" =>
                 /\ Len(r.conversation_history) = 6
                 /\ Len(r.stream) = 7
                 /\ r.stream[7] = DoneEvent

\* both requests are in flight, each awaiting its last turn's call with its own
\* five Turns sent, one grounded and one not
C11_Witness ==
    /\ pc = "concurrent"
    /\ \A s \in {1, 2} :
         /\ sessions[s].pc = "turn"
         /\ sessions[s].turn = 5
         /\ Len(sessions[s].stream) = 5
    /\ sessions[1].search_context # Empty
    /\ sessions[2].search_context = Empty
    /\ sessions[1].conversation_history[5].message # sessions[2].conversation_history[5].message

====
